---- MODULE Spec2Model ----
(***************************************************************************)
(* Model of deployer/kubernetes_deployer.py: main, build_and_push_images,  *)
(* update_pods and the create_or_update_* helpers, run against a cluster   *)
(* namespace, a pod set and a local docker image inventory; and of         *)
(* deployer/scanner.py: main, which turns a challenge folder tree into the *)
(* list main is called with.                                               *)
(***************************************************************************)
EXTENDS Integers, Sequences, FiniteSets, TLC

\* ------------------------------------------------------------------ bounds
MaxSize == 3            \* challenges + namespace objects + pods + inventory
                        \* rows before the first run
MaxRows == 3            \* rows of the docker image inventory at any time
MaxFaults == 1          \* failing Kubernetes API calls
MaxRerun == 1           \* challenges of a list that is run twice
MaxFolders == 2         \* challenge folders of a scanned tree
MaxRemote == 2          \* challenges stored on CTFd when ctfd_deploy.main begins
MaxChallenges == 2      \* challenges handed to ctfd_deploy.main

\* ------------------------------------------------------- program constants
DEFAULT_INTERNAL_PORT == 5000
REGISTRY == "registry.local:5000/"
NAMESPACE == "ethical-hacking"
MANAGED_BY == "securitylab.disi.unitn.it/managed-by=true"

Deployment == "Deployment"
Service == "Service"
Autoscaler == "HorizontalPodAutoscaler"
Pod == "Pod"
Kinds == {Deployment, Service, Autoscaler}

\* ------------------------------------------------------------ input domains
\* Challenge records as scanner.Challenge builds them; hasDockerfile stands
\* for os.path.exists(challenge.path + "/Dockerfile").
Catalog ==
    << [id |-> "web-01-ctf", port |-> 10101],
       [id |-> "pwn-02-rop", port |-> 20102] >>

RECURSIVE ChallengeListsFrom(_, _)
ChallengeListsFrom(i, n) ==
    IF i > Len(Catalog) \/ n = 0 THEN { <<>> }
    ELSE LET rest == ChallengeListsFrom(i + 1, n)
             tails == ChallengeListsFrom(i + 1, n - 1)
         IN  rest \cup
             { <<[id |-> Catalog[i].id, port |-> Catalog[i].port,
                  hasDockerfile |-> d]>> \o t : d \in BOOLEAN, t \in tails }

ChallengeLists(n) == ChallengeListsFrom(1, n)

ObjectNames == {"web-01-ctf", "old-99"}
ObjectUniverse == [kind : Kinds, name : ObjectNames, managed : BOOLEAN]

\* a namespace holds at most one object per kind and name
ObjectSets(n) ==
    { S \in SUBSET ObjectUniverse :
        /\ Cardinality(S) <= n
        /\ \A a, b \in S : (a.kind = b.kind /\ a.name = b.name) => a = b }

Repo(registry, id) == [registry |-> registry, id |-> id]
Tag(id) == Repo(REGISTRY, id)

\* image is the image of containers[0], others are the images of the further
\* containers of the pod
PodUniverse ==
    { [name |-> "web-01-ctf-5d9f", managed |-> TRUE, image |-> Tag("web-01-ctf"),
       others |-> {}],
      [name |-> "hand-made", managed |-> FALSE, image |-> Tag("web-01-ctf"),
       others |-> {}],
      [name |-> "old-99-7c4b", managed |-> TRUE, image |-> Tag("old-99"),
       others |-> {Tag("web-01-ctf")}] }
PodSets(n) == { S \in SUBSET PodUniverse : Cardinality(S) <= n }

NoneDigest == "<none>"
PushedDigests == {"sha:AAA", "sha:BBB"}
RowUniverse ==
    [repository : {Tag("web-01-ctf")}, digest : PushedDigests \cup {""}]
      \cup { [repository |-> Repo("docker.io/", "web-01-ctf"), digest |-> "sha:AAA"] }

RECURSIVE SeqsUpTo(_, _)
SeqsUpTo(S, n) ==
    IF n = 0 THEN { <<>> }
    ELSE LET shorter == SeqsUpTo(S, n - 1)
         IN  shorter \cup { <<x>> \o s : x \in S, s \in { t \in shorter : Len(t) = n - 1 } }
Min(a, b) == IF a < b THEN a ELSE b
Inventories(n) == SeqsUpTo(RowUniverse, Min(n, MaxRows))

Interrupt == "KeyboardInterrupt"
Answers == {"y", "Y", "n", ""}

\* ------------------------------------------------------------------ helpers
Range(s) == { s[i] : i \in 1..Len(s) }

\* str.lower() on the answers a prompt can receive
Lower(s) == IF s = "Y" THEN "y" ELSE s

\* the [challenge.id for challenge in deployed_*] comprehension
Ids(chs) == { chs[i].id : i \in 1..Len(chs) }

Names(objs) == { o.name : o \in objs }

\* ------------------------------------------------------- scanner.main
\* Folder names are sequences of characters.
Digits == <<"0", "1", "2", "3", "4", "5", "6", "7", "8", "9">>
LowerCase == <<"a", "b", "c", "d", "e", "f", "g", "h", "i", "j", "k", "l", "m",
               "n", "o", "p", "q", "r", "s", "t", "u", "v", "w", "x", "y", "z">>
UpperCase == <<"A", "B", "C", "D", "E", "F", "G", "H", "I", "J", "K", "L", "M",
               "N", "O", "P", "Q", "R", "S", "T", "U", "V", "W", "X", "Y", "Z">>

IsDigit(c) == c \in Range(Digits)

\* str.lower() on one character
ToLower(c) ==
    IF c \in Range(UpperCase)
    THEN LowerCase[CHOOSE i \in 1..Len(UpperCase) : UpperCase[i] = c]
    ELSE c

\* re.sub(r"[^a-z0-9]", "-", name.lower())
Normalise(name) ==
    [i \in 1..Len(name) |->
        LET c == ToLower(name[i])
        IN  IF c \in Range(LowerCase) \/ IsDigit(c) THEN c ELSE "-"]

\* re.compile(r"([0-9]{n})_(.+)").match(name) is not None
Matches(name, n) ==
    /\ Len(name) >= n + 2
    /\ \A i \in 1..n : IsDigit(name[i])
    /\ name[n + 1] = "_"
    /\ name[n + 2] # "\n"

\* match.group(1) and match.group(2)
Group1(name, n) == SubSeq(name, 1, n)
Group2(name, n) == SubSeq(name, n + 2, Len(name))

\* CATEGORY_REGEX, SUBCATEGORY_REGEX and CHALLENGE_REGEX: the digits of the prefix
CategoryDigits == 2
SubcategoryDigits == 1
ChallengeDigits == 2

\* int() of a sequence of decimal digits
RECURSIVE ToInt(_)
ToInt(ds) ==
    IF ds = <<>> THEN 0
    ELSE 10 * ToInt(SubSeq(ds, 1, Len(ds) - 1))
           + (CHOOSE v \in 0..9 : Digits[v + 1] = ds[Len(ds)])

\* the characters of a name as one string
RECURSIVE Join(_)
Join(cs) == IF cs = <<>> THEN "" ELSE Head(cs) \o Join(Tail(cs))

\* int(category_id + subcategory_id + challenge_id)
ChallengePort(f) ==
    ToInt(Group1(f.category, CategoryDigits) \o Group1(f.subcategory, SubcategoryDigits)
            \o Group1(f.challenge, ChallengeDigits))

\* Challenge.id: f"{self.category}-{self.name}", with the normalised category
\* name (without its prefix) and the normalised challenge folder name
ChallengeId(f) ==
    Normalise(Group2(f.category, CategoryDigits)) \o <<"-">> \o Normalise(f.challenge)

\* the Challenge the scanner appends for folder f
ScannedChallenge(f) ==
    [id |-> Join(ChallengeId(f)), port |-> ChallengePort(f),
     hasDockerfile |-> f.hasDockerfile]

\* the checks that end the scan with sys.exit(1)
FolderAccepted(f) ==
    /\ Matches(f.category, CategoryDigits)
    /\ Matches(f.subcategory, SubcategoryDigits)
    /\ Matches(f.challenge, ChallengeDigits)
    /\ f.hasConfig

\* the list scanner.main returns for an accepted tree
ScanResult(fs) == [i \in 1..Len(fs) |-> ScannedChallenge(fs[i])]

\* folder trees: the challenge folders in the order os.listdir yields them
CategoryFolders ==
    { <<"1", "0", "_", "w", "e", "b">>, <<"1", "0", "_", "P", "w", "n">>,
      <<"1", "0", "_", "_", "x">>, <<"w", "e", "b">> }
SubcategoryFolders == { <<"1", "_", "a">>, <<"a">> }
ChallengeFolders ==
    { <<"0", "1", "_", "c", "t", "f">>, <<"0", "1", "_", "c", "!">>, <<"c", "t", "f">> }

FolderUniverse ==
    [category : CategoryFolders, subcategory : SubcategoryFolders,
     challenge : ChallengeFolders, hasDockerfile : BOOLEAN, hasConfig : BOOLEAN]

SamePath(f, g) ==
    f.category = g.category /\ f.subcategory = g.subcategory /\ f.challenge = g.challenge

\* a walk of a directory tree: no path twice, the folders of a category
\* together and the folders of a subcategory together
IsWalk(fs) ==
    /\ \A i, j \in 1..Len(fs) : (i # j) => ~SamePath(fs[i], fs[j])
    /\ \A i, j, k \in 1..Len(fs) :
          (i < j /\ j < k) =>
              /\ fs[i].category = fs[k].category => fs[j].category = fs[i].category
              /\ (fs[i].category = fs[k].category /\ fs[i].subcategory = fs[k].subcategory)
                    => fs[j].subcategory = fs[i].subcategory

FolderLists(n) == { fs \in SeqsUpTo(FolderUniverse, n) : IsWalk(fs) }

\* a valid DNS-1123 label, the form Kubernetes demands of an object name
IsDNS1123Label(cs) ==
    /\ Len(cs) >= 1 /\ Len(cs) <= 63
    /\ \A i \in 1..Len(cs) : cs[i] \in Range(LowerCase) \/ IsDigit(cs[i]) \/ cs[i] = "-"
    /\ cs[1] # "-" /\ cs[Len(cs)] # "-"

\* ------------------------------------------------------------------- state
VARIABLES
    folders,            \* the challenge folders scanner.main walks
    challenges, build_images, ignore_existing, \* arguments of main
    cluster,            \* kind -> objects of the namespace
    pods,               \* pods of the namespace
    inventory,          \* rows printed by "docker images"
    pc, error,          \* position of main and the exception that ended it
    run,                \* 1 in the first run of main, 2 in the second
    cluster0,           \* the namespace objects when the current run began
    faults,             \* Kubernetes API calls that have failed so far
    calls,              \* Kubernetes API calls of the current run, in order
    prompts,            \* prompts of the current run, in order
    images_repo_digests, build_commands, push_commands, updated_images,
    building, pushing,  \* commands a worker of the build / push pool is running
    failed,             \* tags whose build or push command exited non-zero
    pods_to_delete, pods_todo,
    deployed,           \* deployed_deployments / deployed_services / deployed_hpas
    idx, kind,          \* challenge loop position and resource being applied
    batch, to_delete, todo,
    remote,             \* the challenges stored on CTFd
    remote0,            \* the challenges stored on CTFd when ctfd_deploy.main began
    existing_challenges, processed_challenges, \* the two dicts of ctfd_deploy.main
    requests,           \* POST, PATCH and DELETE requests sent to CTFd, in order
    offers              \* "Delete challenge ...?" prompts of ctfd_deploy.main, in order

args == <<folders, challenges, build_images, ignore_existing>>
world == <<cluster, pods, inventory>>
buildVars == <<images_repo_digests, build_commands, push_commands, updated_images,
               building, pushing, failed>>
podVars == <<pods_to_delete, pods_todo>>
loopVars == <<deployed, idx, kind>>
delVars == <<batch, to_delete, todo>>
ctfdVars == <<remote, remote0, existing_challenges, processed_challenges,
              requests, offers>>
vars == <<args, world, pc, error, run, cluster0, faults, calls, prompts,
          buildVars, podVars, loopVars, delVars, ctfdVars>>


\* ---------------------------------------------------------------- manifests
\* The three manifests main builds for a challenge (only the fields the
\* calls depend on).  The Deployment carries the management label on its pod
\* template only, not in its own metadata.
DeploymentManifest(c) ==
    [kind |-> Deployment, name |-> c.id, managed |-> FALSE,
     selector |-> c.id, podManaged |-> TRUE, podLabel |-> c.id,
     image |-> Tag(c.id), containerPort |-> DEFAULT_INTERNAL_PORT,
     port |-> 0, targetPort |-> 0, nodePort |-> 0]

HpaManifest(c) ==
    [kind |-> Autoscaler, name |-> c.id, managed |-> TRUE,
     selector |-> c.id, podManaged |-> FALSE, podLabel |-> "",
     image |-> Tag(c.id), containerPort |-> 0,
     port |-> 0, targetPort |-> 0, nodePort |-> 0]

\* mutant of ServiceManifest: the Service forwards to the external port
ServiceManifestSamePort(c) ==
    [kind |-> Service, name |-> c.id, managed |-> TRUE,
     selector |-> c.id, podManaged |-> FALSE, podLabel |-> "",
     image |-> Tag(c.id), containerPort |-> 0,
     port |-> c.port, targetPort |-> c.port, nodePort |-> c.port]

ServiceManifest(c) ==
    [kind |-> Service, name |-> c.id, managed |-> TRUE,
     selector |-> c.id, podManaged |-> FALSE, podLabel |-> "",
     image |-> Tag(c.id), containerPort |-> 0,
     port |-> c.port, targetPort |-> DEFAULT_INTERNAL_PORT, nodePort |-> c.port]

Manifest(k, c) ==
    IF k = Deployment THEN DeploymentManifest(c)
    ELSE IF k = Autoscaler THEN HpaManifest(c)
    ELSE ServiceManifest(c)

\* mutant of AutoscalerEnabled: the guard of the block holds
AutoscalerAlways == (1 + 1 = 2)

\* "if 1 + 1 == 1:" guarding the HorizontalPodAutoscaler block of main
AutoscalerEnabled == (1 + 1 = 1)

\* the resource main applies after kind k for the same challenge
\* ("" when the challenge is finished)
NextKind(k) ==
    IF k = Deployment THEN (IF AutoscalerEnabled THEN Autoscaler ELSE Service)
    ELSE IF k = Autoscaler THEN Service
    ELSE ""

\* the kinds main applies for a challenge with a Dockerfile
AppliedKinds == IF AutoscalerEnabled THEN Kinds ELSE {Deployment, Service}

\* ------------------------------------------------------ create_or_update_*
Call(api, k, name, ok, existed, port) ==
    [api |-> api, kind |-> k, name |-> name, ok |-> ok,
     existed |-> existed, port |-> port]

\* mutant of create_or_update_resource: a read that fails although the object
\* is there is re-raised instead of leading to create
create_or_update_checked(m, present, readFault, replaceFault, createFault) ==
    LET readOk == present /\ ~readFault
        read == Call("read", m.kind, m.name, readOk, present, 0)
        replace == Call("replace", m.kind, m.name, ~replaceFault, present, m.port)
        create == Call("create", m.kind, m.name, ~present /\ ~createFault, present, m.port)
    IN  IF readOk
        THEN IF ~replaceFault THEN <<read, replace>> ELSE <<read, replace, create>>
        ELSE IF present THEN <<read>> ELSE <<read, create>>

\* The calls create_or_update_service / _deployment /
\* _horizontal_pod_autoscaler issue for manifest m: read, then replace inside
\* the try block; any exception of the two leads to create.  present is
\* whether the object is in the namespace, the three flags are API failures
\* other than the 404 of the read and the 409 of the create.
create_or_update_resource(m, present, readFault, replaceFault, createFault) ==
    LET readOk == present /\ ~readFault
        read == Call("read", m.kind, m.name, readOk, present, 0)
        replace == Call("replace", m.kind, m.name, ~replaceFault, present, m.port)
        create == Call("create", m.kind, m.name, ~present /\ ~createFault, present, m.port)
    IN  IF readOk
        THEN IF ~replaceFault THEN <<read, replace>> ELSE <<read, replace, create>>
        ELSE <<read, create>>

\* the call sequence ended without an exception reaching main
Succeeded(cs) == cs[Len(cs)].ok

\* ------------------------------------------------- build_and_push_images
EmptyMap == [r \in {} |-> ""]

\* images.stdout.split("\n"): one line per row, then the empty string that
\* follows the last newline
BlankLine == [repository |-> Repo("", ""), digest |-> ""]
Lines(inv) == inv \o <<BlankLine>>

\* repository.replace("__:__", "") == ""
IsBlank(line) == line.repository = Repo("", "") /\ line.digest = ""

\* repository.startswith(REGISTRY)
StartsWithRegistry(repository) == repository.registry = REGISTRY

\* first loop of build_and_push_images: repository -> first listed digest
RECURSIVE RepoDigests(_, _)
RepoDigests(lines, acc) ==
    IF lines = <<>> THEN acc
    ELSE LET l == Head(lines)
         IN  IF ~IsBlank(l) /\ StartsWithRegistry(l.repository)
                            /\ l.repository \notin DOMAIN acc
             THEN RepoDigests(Tail(lines), acc @@ (l.repository :> l.digest))
             ELSE RepoDigests(Tail(lines), acc)

\* mutant of UpdatedImages: the test of the new digest is inverted
RECURSIVE UpdatedImagesEmptyDigest(_, _)
UpdatedImagesEmptyDigest(lines, saved) ==
    IF lines = <<>> THEN <<>>
    ELSE LET l == Head(lines)
             hit == /\ ~IsBlank(l)
                    /\ StartsWithRegistry(l.repository)
                    /\ l.repository \in DOMAIN saved
                    /\ saved[l.repository] # l.digest
                    /\ l.digest = ""
                    /\ saved[l.repository] # ""
         IN  (IF hit THEN <<l.repository>> ELSE <<>>)
                 \o UpdatedImagesEmptyDigest(Tail(lines), saved)

\* second loop of build_and_push_images: the updated_images list
RECURSIVE UpdatedImages(_, _)
UpdatedImages(lines, saved) ==
    IF lines = <<>> THEN <<>>
    ELSE LET l == Head(lines)
             hit == /\ ~IsBlank(l)
                    /\ StartsWithRegistry(l.repository)
                    /\ l.repository \in DOMAIN saved
                    /\ saved[l.repository] # l.digest
                    /\ l.digest # ""
                    /\ saved[l.repository] # ""
         IN  (IF hit THEN <<l.repository>> ELSE <<>>)
                 \o UpdatedImages(Tail(lines), saved)

\* mutant of CommandTags: the Dockerfile test is left out
RECURSIVE CommandTagsAll(_)
CommandTagsAll(chs) ==
    IF chs = <<>> THEN {}
    ELSE {Tag(Head(chs).id)} \cup CommandTagsAll(Tail(chs))

\* the tags of the build and push command lists: one per challenge with a
\* Dockerfile (images_repositories is the empty list)
RECURSIVE CommandTags(_)
CommandTags(chs) ==
    IF chs = <<>> THEN {}
    ELSE (IF Head(chs).hasDockerfile THEN {Tag(Head(chs).id)} ELSE {})
             \cup CommandTags(Tail(chs))

\* mutant of PodsToDelete: the pods are listed without the label selector
PodsToDeleteUnlabelled(ps, images) ==
    { p.name : p \in { q \in ps : q.image \in Range(images) } }

\* update_pods: pods listed with the management label selector whose first
\* container image is in images
PodsToDelete(ps, images) ==
    { p.name : p \in { q \in ps : q.managed /\ q.image \in Range(images) } }

\* index of the first row of repository t, 0 when there is none
RECURSIVE FirstRow(_, _, _)
FirstRow(inv, t, i) ==
    IF i > Len(inv) THEN 0
    ELSE IF inv[i].repository = t THEN i ELSE FirstRow(inv, t, i + 1)

\* digests free for a newly pushed image of repository t
FreshDigests(inv, t) ==
    PushedDigests \ { inv[i].digest : i \in { j \in 1..Len(inv) : inv[j].repository = t } }


\* -------------------------------------------------------------------- Init
FreshLocals ==
    /\ error = ""
    /\ faults = 0
    /\ calls = <<>> /\ prompts = <<>>
    /\ images_repo_digests = EmptyMap
    /\ build_commands = {} /\ push_commands = {}
    /\ updated_images = <<>>
    /\ building = {} /\ pushing = {} /\ failed = {}
    /\ pods_to_delete = {} /\ pods_todo = {}
    /\ deployed = [k \in Kinds |-> <<>>]
    /\ idx = 1 /\ kind = Deployment
    /\ batch = 1 /\ to_delete = {} /\ todo = {}

FreshRun == pc = "start" /\ FreshLocals

\* ctfd_deploy has not run
CtfdIdle ==
    /\ remote = {} /\ remote0 = {}
    /\ existing_challenges = <<>> /\ processed_challenges = <<>>
    /\ requests = <<>> /\ offers = <<>>

\* Without --build neither the pods nor the image inventory are read.
Init ==
    /\ folders = <<>>
    /\ challenges \in ChallengeLists(MaxSize)
    /\ build_images \in BOOLEAN
    /\ ignore_existing \in (IF build_images THEN BOOLEAN ELSE {FALSE})
    /\ cluster \in ObjectSets(MaxSize - Len(challenges))
    /\ pods \in (IF build_images
                 THEN PodSets(MaxSize - Len(challenges) - Cardinality(cluster))
                 ELSE { {} })
    /\ inventory \in (IF build_images
                      THEN Inventories(MaxSize - Len(challenges)
                                         - Cardinality(cluster) - Cardinality(pods))
                      ELSE { <<>> })
    /\ run = 1
    /\ cluster0 = cluster
    /\ FreshRun
    /\ CtfdIdle

\* ----------------------------------------------------------------- actions
Raise(e) == pc' = "raised" /\ error' = e

\* the "Press Enter to continue..." prompt of main and how input() ended
FirstPrompt(reply) == [kind |-> "main", names |-> {}, reply |-> reply]

\* main, lines 191-204: the operator presses Enter
Continue ==
    /\ pc = "start"
    /\ prompts' = Append(prompts, FirstPrompt("entered"))
    /\ pc' = IF build_images THEN "snapshot" ELSE "loop"
    /\ UNCHANGED <<args, world, error, run, ctfdVars, cluster0, faults, calls,
                   buildVars, podVars, loopVars, delVars>>

\* mutant of AbortAtPrompt: the handler prints "Aborted." and does not return
AbortIgnored ==
    /\ pc = "start"
    /\ prompts' = Append(prompts, FirstPrompt("interrupted"))
    /\ pc' = IF build_images THEN "snapshot" ELSE "loop"
    /\ UNCHANGED <<args, world, error, run, ctfdVars, cluster0, faults, calls,
                   buildVars, podVars, loopVars, delVars>>

\* main, lines 194-196: KeyboardInterrupt at the first prompt
AbortAtPrompt ==
    /\ pc = "start"
    /\ prompts' = Append(prompts, FirstPrompt("interrupted"))
    /\ pc' = "aborted"
    /\ UNCHANGED <<args, world, error, run, ctfdVars, cluster0, faults, calls,
                   buildVars, podVars, loopVars, delVars>>

\* build_and_push_images, lines 109-142: first inventory snapshot and the
\* command lists.  With ignore_existing the name images_repositories is never
\* bound, and the first challenge with a Dockerfile raises NameError.
SnapshotBefore ==
    /\ pc = "snapshot"
    /\ images_repo_digests' = RepoDigests(Lines(inventory), EmptyMap)
    /\ IF ignore_existing /\ CommandTags(challenges) # {}
       THEN /\ Raise("NameError")
            /\ UNCHANGED <<build_commands, push_commands>>
       ELSE /\ build_commands' = CommandTags(challenges)
            /\ push_commands' = CommandTags(challenges)
            /\ pc' = "build" /\ UNCHANGED error
    /\ UNCHANGED <<args, world, run, ctfdVars, cluster0, faults, calls, prompts, updated_images,
                   building, pushing, failed, podVars, loopVars, delVars>>

\* mutant of PoolDone: map returns once every command has been handed to a
\* worker
PoolDispatched(pending, running) == pending = {}

\* "with Pool() as pool: pool.map(run_command, commands)" returns: no
\* command is waiting and no worker is inside run_command
PoolDone(pending, running) == pending = {} /\ running = {}

\* a worker of the first pool takes a "docker build -t tag path" command
BuildStart ==
    /\ pc = "build"
    /\ \E t \in build_commands :
        /\ build_commands' = build_commands \ {t}
        /\ building' = building \cup {t}
    /\ UNCHANGED <<args, world, pc, error, run, ctfdVars, cluster0, faults, calls, prompts,
                   images_repo_digests, push_commands, updated_images,
                   pushing, failed, podVars, loopVars, delVars>>

\* subprocess.run of a build command returns; run_command ignores the exit
\* status.  A failed build leaves the inventory alone, a successful one
\* either rebuilds the image that is there or puts an undigested row for the
\* tag first and leaves the rows of the pushed images.
BuildFinish ==
    /\ \E t \in building :
        /\ building' = building \ {t}
        /\ \/ failed' = failed \cup {t} /\ UNCHANGED inventory
           \/ UNCHANGED <<failed, inventory>>
           \/ /\ Len(inventory) < MaxRows
              /\ IF FirstRow(inventory, t, 1) = 0 THEN TRUE
                 ELSE inventory[FirstRow(inventory, t, 1)].digest # NoneDigest
              /\ inventory' = <<[repository |-> t, digest |-> NoneDigest]>> \o inventory
              /\ UNCHANGED failed
    /\ UNCHANGED <<args, cluster, pods, pc, error, run, ctfdVars, cluster0, faults, calls, prompts,
                   images_repo_digests, build_commands, push_commands, updated_images,
                   pushing, podVars, loopVars, delVars>>

\* pool.map of the build pool returns
BuildBarrier ==
    /\ pc = "build" /\ PoolDone(build_commands, building)
    /\ pc' = "push"
    /\ UNCHANGED <<args, world, error, run, ctfdVars, cluster0, faults, calls, prompts,
                   buildVars, podVars, loopVars, delVars>>

\* a worker of the second pool takes a "docker push tag" command
PushStart ==
    /\ pc = "push"
    /\ \E t \in push_commands :
        /\ push_commands' = push_commands \ {t}
        /\ pushing' = pushing \cup {t}
    /\ UNCHANGED <<args, world, pc, error, run, ctfdVars, cluster0, faults, calls, prompts,
                   images_repo_digests, build_commands, updated_images,
                   building, failed, podVars, loopVars, delVars>>

\* subprocess.run of a push command returns.  A failed push (always the
\* case when the tag has no local image) leaves the inventory alone; a
\* successful push of a newly built image gives its row a digest.
PushFinish ==
    /\ \E t \in pushing :
        /\ pushing' = pushing \ {t}
        /\ LET i == FirstRow(inventory, t, 1)
           IN  \/ failed' = failed \cup {t} /\ UNCHANGED inventory
               \/ /\ i # 0
                  /\ IF i = 0 THEN FALSE ELSE inventory[i].digest # NoneDigest
                  /\ UNCHANGED <<failed, inventory>>
               \/ /\ i # 0
                  /\ IF i = 0 THEN FALSE ELSE inventory[i].digest = NoneDigest
                  /\ \E d \in FreshDigests(inventory, t) :
                        inventory' = [inventory EXCEPT ![i].digest = d]
                  /\ UNCHANGED failed
    /\ UNCHANGED <<args, cluster, pods, pc, error, run, ctfdVars, cluster0, faults, calls, prompts,
                   images_repo_digests, build_commands, push_commands, updated_images,
                   building, podVars, loopVars, delVars>>

\* build_and_push_images, lines 149-167: pool.map of the push pool returns,
\* then the second snapshot and updated_images
SnapshotAfter ==
    /\ pc = "push" /\ PoolDone(push_commands, pushing)
    /\ updated_images' = UpdatedImages(Lines(inventory), images_repo_digests)
    /\ pc' = IF Len(updated_images') > 0 THEN "update_pods" ELSE "loop"
    /\ UNCHANGED <<args, world, error, run, ctfdVars, cluster0, faults, calls, prompts,
                   images_repo_digests, build_commands, push_commands,
                   building, pushing, failed, podVars, loopVars, delVars>>

\* update_pods, lines 90-96: the pods to delete
ListPods ==
    /\ pc = "update_pods"
    /\ pods_to_delete' = PodsToDelete(pods, updated_images)
    /\ pc' = IF pods_to_delete' # {} THEN "pods_prompt" ELSE "loop"
    /\ UNCHANGED <<args, world, error, run, ctfdVars, cluster0, faults, calls, prompts,
                   buildVars, pods_todo, loopVars, delVars>>

\* mutant of Approves: every answer but "n" approves
ApprovesUnlessNo(answer) == Lower(answer) # "n"

\* answer.lower() == "y"
Approves(answer) == Lower(answer) = "y"

\* a prompt that was shown: what it listed and what the operator typed
\* ("approved" for the keys y and Y, "denied" for any other line)
Prompt(k, names, answer) ==
    [kind |-> k, names |-> names,
     reply |-> IF answer = Interrupt THEN "interrupted"
               ELSE IF answer \in {"y", "Y"} THEN "approved" ELSE "denied"]

\* update_pods, lines 97-98: the restart prompt
PodsPrompt ==
    /\ pc = "pods_prompt"
    /\ \E answer \in Answers \cup {Interrupt} :
        /\ prompts' = Append(prompts, Prompt(Pod, pods_to_delete, answer))
        /\ IF answer = Interrupt
           THEN Raise("KeyboardInterrupt") /\ UNCHANGED pods_todo
           ELSE IF Approves(answer)
           THEN pc' = "pods_delete" /\ pods_todo' = pods_to_delete /\ UNCHANGED error
           ELSE pc' = "loop" /\ UNCHANGED <<pods_todo, error>>
    /\ UNCHANGED <<args, world, run, ctfdVars, cluster0, faults, calls, buildVars, pods_to_delete,
                   loopVars, delVars>>

\* update_pods, lines 99-101: one delete_namespaced_pod call
DeletePod ==
    /\ pc = "pods_delete"
    /\ \E name \in pods_todo, fault \in BOOLEAN :
        /\ fault => faults < MaxFaults
        /\ calls' = Append(calls, Call("delete", Pod, name, ~fault, TRUE, 0))
        /\ IF fault
           THEN /\ Raise("ApiException")
                /\ faults' = faults + 1
                /\ UNCHANGED <<pods, pods_todo>>
           ELSE /\ pods' = { p \in pods : p.name # name }
                /\ pods_todo' = pods_todo \ {name}
                /\ pc' = IF pods_todo' = {} THEN "loop" ELSE "pods_delete"
                /\ UNCHANGED <<error, faults>>
    /\ UNCHANGED <<args, cluster, inventory, run, ctfdVars, cluster0, prompts, buildVars,
                   pods_to_delete, loopVars, delVars>>


\* mutant of LoopFinished: the loop stops one challenge early
LoopFinishedEarly(i, chs) == i >= Len(chs)

\* main, line 206: the challenge loop has gone through the whole list
LoopFinished(i, chs) == i > Len(chs)

\* main, lines 207-211: a challenge without a Dockerfile is skipped
SkipChallenge ==
    /\ pc = "loop" /\ ~LoopFinished(idx, challenges)
    /\ ~challenges[idx].hasDockerfile
    /\ idx' = idx + 1
    /\ UNCHANGED <<args, world, pc, error, run, ctfdVars, cluster0, faults, calls, prompts,
                   buildVars, podVars, deployed, kind, delVars>>

\* main, lines 253-257, 287-291 and 325-329: create_or_update_resource for
\* the manifest of the current kind; an exception is printed and the
\* challenge is not appended to the deployed list of the kind.
Apply ==
    /\ pc = "loop" /\ ~LoopFinished(idx, challenges)
    /\ challenges[idx].hasDockerfile
    /\ LET c == challenges[idx]
           m == Manifest(kind, c)
           present == \E o \in cluster : o.kind = kind /\ o.name = m.name
       IN  \E readFault, replaceFault, createFault \in BOOLEAN :
            /\ readFault => present
            /\ replaceFault => (present /\ ~readFault)
            /\ createFault => ~present
            /\ (readFault \/ replaceFault \/ createFault) => faults < MaxFaults
            /\ faults' = IF readFault \/ replaceFault \/ createFault
                         THEN faults + 1 ELSE faults
            /\ LET cs == create_or_update_resource(m, present, readFault,
                                                   replaceFault, createFault)
               IN  /\ calls' = calls \o cs
                   /\ IF Succeeded(cs)
                      THEN /\ cluster' = { o \in cluster : ~(o.kind = kind /\ o.name = m.name) }
                                           \cup { [kind |-> kind, name |-> m.name,
                                                   managed |-> m.managed] }
                           /\ deployed' = [deployed EXCEPT ![kind] = Append(@, c)]
                      ELSE UNCHANGED <<cluster, deployed>>
    /\ IF NextKind(kind) = ""
       THEN idx' = idx + 1 /\ kind' = Deployment
       ELSE idx' = idx /\ kind' = NextKind(kind)
    /\ UNCHANGED <<args, pods, inventory, pc, error, run, ctfdVars, cluster0, prompts,
                   buildVars, podVars, delVars>>

\* the order of the three deletion batches of main
BatchKinds == <<Deployment, Service, Autoscaler>>

\* main, lines 332-336, 346-350 and 359-363: the names of the listing of the
\* kind (no label selector) that are not ids of the deployed list of the kind
ToDelete(objs, k, deployedOfKind) ==
    Names({ o \in objs : o.kind = k }) \ Ids(deployedOfKind)

\* the client object a deletion loop calls has the delete method of the
\* kind: apps_v1 and core_v1 for Deployments and Services; core_v1 has no
\* delete_namespaced_horizontal_pod_autoscaler
DeleteMethodExists(k) == k # Autoscaler

StartDeletions ==
    /\ pc = "loop" /\ LoopFinished(idx, challenges)
    /\ pc' = "list" /\ batch' = 1
    /\ UNCHANGED <<args, world, error, run, ctfdVars, cluster0, faults, calls, prompts,
                   buildVars, podVars, loopVars, to_delete, todo>>

\* position after batch b
AfterBatch(b) == IF b = Len(BatchKinds) THEN "done" ELSE "list"

ListResources ==
    /\ pc = "list"
    /\ LET k == BatchKinds[batch]
       IN  to_delete' = ToDelete(cluster, k, deployed[k])
    /\ IF to_delete' = {}
       THEN pc' = AfterBatch(batch) /\ batch' = batch + 1
       ELSE pc' = "prompt" /\ batch' = batch
    /\ UNCHANGED <<args, world, error, run, ctfdVars, cluster0, faults, calls, prompts,
                   buildVars, podVars, loopVars, todo>>

\* main, lines 338-340, 352-354 and 365-367: the deletion prompt of a batch
DeletionPrompt ==
    /\ pc = "prompt"
    /\ \E answer \in Answers \cup {Interrupt} :
        /\ prompts' = Append(prompts, Prompt(BatchKinds[batch], to_delete, answer))
        /\ IF answer = Interrupt
           THEN Raise("KeyboardInterrupt") /\ UNCHANGED <<todo, batch>>
           ELSE IF Approves(answer)
           THEN pc' = "delete" /\ todo' = to_delete /\ UNCHANGED <<error, batch>>
           ELSE /\ pc' = AfterBatch(batch) /\ batch' = batch + 1
                /\ UNCHANGED <<todo, error>>
    /\ UNCHANGED <<args, world, run, ctfdVars, cluster0, faults, calls, buildVars, podVars,
                   loopVars, to_delete>>

\* main, lines 341-343, 355-357 and 368-370: one iteration of a deletion loop
DeleteResource ==
    /\ pc = "delete"
    /\ LET k == BatchKinds[batch]
       IN  \E name \in todo, fault \in BOOLEAN :
            /\ fault => (faults < MaxFaults /\ DeleteMethodExists(k))
            /\ IF ~DeleteMethodExists(k)
               THEN /\ Raise("AttributeError")
                    /\ UNCHANGED <<cluster, calls, faults, todo, batch>>
               ELSE /\ calls' = Append(calls, Call("delete", k, name, ~fault, TRUE, 0))
                    /\ IF fault
                       THEN /\ Raise("ApiException")
                            /\ faults' = faults + 1
                            /\ UNCHANGED <<cluster, todo, batch>>
                       ELSE /\ cluster' = { o \in cluster : ~(o.kind = k /\ o.name = name) }
                            /\ todo' = todo \ {name}
                            /\ IF todo' = {}
                               THEN pc' = AfterBatch(batch) /\ batch' = batch + 1
                               ELSE pc' = "delete" /\ batch' = batch
                            /\ UNCHANGED <<error, faults>>
    /\ UNCHANGED <<args, pods, inventory, run, ctfdVars, cluster0, prompts, buildVars, podVars,
                   loopVars, to_delete>>

\* the operator starts main a second time with the same arguments
NextRun ==
    /\ pc = "done" /\ run = 1
    /\ run' = run + 1
    /\ cluster0' = cluster
    /\ pc' = "start" /\ error' = ""
    /\ UNCHANGED faults
    /\ calls' = <<>> /\ prompts' = <<>>
    /\ images_repo_digests' = EmptyMap
    /\ build_commands' = {} /\ push_commands' = {}
    /\ updated_images' = <<>>
    /\ building' = {} /\ pushing' = {} /\ failed' = {}
    /\ pods_to_delete' = {} /\ pods_todo' = {}
    /\ deployed' = [k \in Kinds |-> <<>>]
    /\ idx' = 1 /\ kind' = Deployment
    /\ batch' = 1 /\ to_delete' = {} /\ todo' = {}
    /\ UNCHANGED <<args, world, ctfdVars>>

Next ==
    \/ Continue
    \/ AbortAtPrompt
    \/ SnapshotBefore
    \/ BuildStart
    \/ BuildFinish
    \/ BuildBarrier
    \/ PushStart
    \/ PushFinish
    \/ SnapshotAfter
    \/ ListPods
    \/ PodsPrompt
    \/ DeletePod
    \/ SkipChallenge
    \/ Apply
    \/ StartDeletions
    \/ ListResources
    \/ DeletionPrompt
    \/ DeleteResource

Spec == Init /\ [][Next]_vars

\* __main__, lines 413-419, and scanner.main: every folder is accepted and
\* main is called with the scanned list
Scan ==
    /\ pc = "scan"
    /\ \A i \in 1..Len(folders) : FolderAccepted(folders[i])
    /\ challenges' = ScanResult(folders)
    /\ pc' = "start"
    /\ UNCHANGED <<folders, build_images, ignore_existing, world, error, run, ctfdVars, cluster0,
                   faults, calls, prompts, buildVars, podVars, loopVars, delVars>>

\* scanner.main, lines 110-112, 121-123, 132-134 and 143-148: sys.exit(1)
ScanExit ==
    /\ pc = "scan"
    /\ \E i \in 1..Len(folders) : ~FolderAccepted(folders[i])
    /\ pc' = "exit" /\ error' = "SystemExit"
    /\ UNCHANGED <<args, world, run, ctfdVars, cluster0, faults, calls, prompts,
                   buildVars, podVars, loopVars, delVars>>

\* the deployer started without --build on a challenge folder tree
InitScan ==
    /\ folders \in FolderLists(MaxFolders)
    /\ challenges = <<>>
    /\ build_images = FALSE /\ ignore_existing = FALSE
    /\ cluster \in ObjectSets(MaxSize - 1 - Len(folders))
    /\ pods = {} /\ inventory = <<>>
    /\ run = 1
    /\ cluster0 = cluster
    /\ pc = "scan" /\ FreshLocals
    /\ CtfdIdle

NextScan ==
    \/ Scan
    \/ ScanExit
    \/ Continue
    \/ AbortAtPrompt
    \/ SkipChallenge
    \/ Apply
    \/ StartDeletions
    \/ ListResources
    \/ DeletionPrompt
    \/ DeleteResource

SpecScan == InitScan /\ [][NextScan]_vars

\* the order of the two listings of clean_cluster
CleanKinds == <<Service, Deployment>>

\* clean_cluster, lines 174 and 179: the names of the listing of the kind
\* with the management label selector
Labelled(objs, k) == Names({ o \in objs : o.kind = k /\ o.managed })

\* position after listing b of clean_cluster
AfterClean(b) == IF b = Len(CleanKinds) THEN "cleaned" ELSE "clean_list"

\* __main__, lines 405-411: the deployer is started again with --clean and
\* asks "Are you sure you want to delete all the challenges?"
CleanPrompt ==
    /\ pc = "done"
    /\ \E answer \in Answers \cup {Interrupt} :
        /\ prompts' = Append(prompts, Prompt("clean", {}, answer))
        /\ IF answer = Interrupt
           THEN Raise("KeyboardInterrupt") /\ UNCHANGED batch
           ELSE IF Approves(answer)
           THEN pc' = "clean_list" /\ batch' = 1 /\ UNCHANGED error
           ELSE pc' = "clean_aborted" /\ UNCHANGED <<error, batch>>
    /\ cluster0' = cluster
    /\ UNCHANGED <<args, world, run, ctfdVars, faults, calls, buildVars, podVars,
                   loopVars, to_delete, todo>>

\* clean_cluster, lines 174-175 and 179-180: one listing
CleanList ==
    /\ pc = "clean_list"
    /\ to_delete' = Labelled(cluster, CleanKinds[batch])
    /\ todo' = to_delete'
    /\ IF todo' = {}
       THEN pc' = AfterClean(batch) /\ batch' = batch + 1
       ELSE pc' = "clean_delete" /\ batch' = batch
    /\ UNCHANGED <<args, world, error, run, ctfdVars, cluster0, faults, calls, prompts,
                   buildVars, podVars, loopVars>>

\* clean_cluster, lines 176-177 and 181-182: one iteration of a delete loop
CleanDelete ==
    /\ pc = "clean_delete"
    /\ LET k == CleanKinds[batch]
       IN  \E name \in todo, fault \in BOOLEAN :
            /\ fault => faults < MaxFaults
            /\ calls' = Append(calls, Call("delete", k, name, ~fault, TRUE, 0))
            /\ IF fault
               THEN /\ Raise("ApiException")
                    /\ faults' = faults + 1
                    /\ UNCHANGED <<cluster, todo, batch>>
               ELSE /\ cluster' = { o \in cluster : ~(o.kind = k /\ o.name = name) }
                    /\ todo' = todo \ {name}
                    /\ IF todo' = {}
                       THEN pc' = AfterClean(batch) /\ batch' = batch + 1
                       ELSE pc' = "clean_delete" /\ batch' = batch
                    /\ UNCHANGED <<error, faults>>
    /\ UNCHANGED <<args, pods, inventory, run, ctfdVars, cluster0, prompts, buildVars, podVars,
                   loopVars, to_delete>>

\* a run of main without --build, then a run with --clean
InitClean == Init /\ ~build_images

NextClean ==
    \/ Continue
    \/ AbortAtPrompt
    \/ SkipChallenge
    \/ Apply
    \/ StartDeletions
    \/ ListResources
    \/ DeletionPrompt
    \/ DeleteResource
    \/ CleanPrompt
    \/ CleanList
    \/ CleanDelete

SpecClean == InitClean /\ [][NextClean]_vars

\* two consecutive runs of main on the same challenge list
InitTwice == Init /\ Len(challenges) <= MaxRerun
NextTwice == Next \/ NextRun
SpecTwice == InitTwice /\ [][NextTwice]_vars

\* ------------------------------------------------------- ctfd_deploy.main
\* A dict is the sequence of its items in insertion order, keys unique.
DictHas(d, k) == \E i \in 1..Len(d) : d[i].key = k

DictGet(d, k) == d[CHOOSE i \in 1..Len(d) : d[i].key = k].value

\* d[k] = v: a key already in the dict keeps its position
DictSet(d, k, v) ==
    IF DictHas(d, k)
    THEN [i \in 1..Len(d) |-> IF d[i].key = k THEN [key |-> k, value |-> v] ELSE d[i]]
    ELSE Append(d, [key |-> k, value |-> v])

DictPop(d, k) == SelectSeq(d, LAMBDA e : e.key # k)

\* d.values()
DictValues(d) == [i \in 1..Len(d) |-> d[i].value]

DictKeys(d) == { d[i].key : i \in 1..Len(d) }

\* Challenges as the scanner hands them to ctfd_deploy.main.  The id is
\* category-name, so the same challenge folder name under two subcategories
\* of a category gives two challenges with one id and two ports.  requires
\* holds the keys main looks up for config.requires, category prefix added
\* and "_" replaced.
CtfdChallenges ==
    { [id |-> "web-01-ctf", port |-> 10101, requires |-> {}],
      [id |-> "web-01-ctf", port |-> 10201, requires |-> {}],
      [id |-> "web-02-sqli", port |-> 10102, requires |-> {"web-01-ctf"}] }

CtfdChallengeLists(n) ==
    { s \in SeqsUpTo(CtfdChallenges, n) : \A i, j \in 1..Len(s) : s[i] = s[j] => i = j }

\* A challenge stored on CTFd: its numeric id and the id of the "[](ID:...)"
\* marker of its description, "" when the description has no marker.
NoMarker == ""
Markers == {"web-01-ctf", "gone-03-old", NoMarker}
RemoteIds == 1..MaxRemote
RemoteUniverse == [id : RemoteIds, marker : Markers]

\* CTFd gives every challenge its own numeric id
RemoteSets(n) ==
    { S \in SUBSET RemoteUniverse :
        /\ Cardinality(S) <= n
        /\ \A a, b \in S : a.id = b.id => a = b
        /\ \A a, b \in S : (a.marker = b.marker /\ a.marker # NoMarker) => a = b }

\* GET /api/v1/challenges?view=admin: the stored challenges by ascending id
RECURSIVE Listing(_)
Listing(S) ==
    IF S = {} THEN <<>>
    ELSE LET first == CHOOSE a \in S : \A b \in S : a.id <= b.id
         IN  <<first>> \o Listing(S \ {first})

\* CHALL_ID_REGEX.search(description) is None
MarkerMissing(chall) == chall.marker = NoMarker

\* get_challenges: ret[c[1]] = c[0] for every listed challenge
RECURSIVE get_challenges(_, _)
get_challenges(listing, ret) ==
    IF listing = <<>> THEN ret
    ELSE get_challenges(Tail(listing),
                        DictSet(ret, Head(listing).marker, Head(listing).id))

\* the id CTFd gives the next created challenge
NextId(S) == IF S = {} THEN 1 ELSE (CHOOSE a \in S : \A b \in S : a.id >= b.id).id + 1

Request(method, id, marker, ok) ==
    [method |-> method, id |-> id, marker |-> marker, ok |-> ok]

\* deploy_challenge, called as main calls it: a PATCH of the stored challenge
\* when main passes its numeric id, a POST otherwise; the new description
\* carries the marker of challenge.id
deploy_challenge(challenge, existing, stored, ok) ==
    IF DictHas(existing, challenge.id)
    THEN Request("PATCH", DictGet(existing, challenge.id), challenge.id, ok)
    ELSE Request("POST", IF ok THEN NextId(stored) ELSE 0, challenge.id, ok)

deployerVars == <<folders, build_images, ignore_existing, world, run, cluster0,
                  calls, prompts, buildVars, podVars, deployed, kind, delVars>>

\* main, line 233: get_challenges; a description without marker raises
\* AttributeError at .group(1) of get_challenge
GetChallenges ==
    /\ pc = "ctfd_start"
    /\ IF \E chall \in remote : MarkerMissing(chall)
       THEN /\ Raise("AttributeError")
            /\ UNCHANGED existing_challenges
       ELSE /\ existing_challenges' = get_challenges(Listing(remote), <<>>)
            /\ pc' = "ctfd_deploy"
            /\ UNCHANGED error
    /\ UNCHANGED <<deployerVars, challenges, faults, idx, remote, remote0,
                   processed_challenges, requests, offers>>

\* main, lines 239-247: one iteration of the deployment loop; a response
\* other than 200 ends the run with sys.exit(1)
DeployChallenge ==
    /\ pc = "ctfd_deploy" /\ idx <= Len(challenges)
    /\ \E ok \in BOOLEAN :
        /\ ~ok => faults < MaxFaults
        /\ faults' = IF ok THEN faults ELSE faults + 1
        /\ LET challenge == challenges[idx]
               r == deploy_challenge(challenge, existing_challenges, remote, ok)
           IN  /\ requests' = Append(requests, r)
               /\ IF ~ok
                  THEN /\ pc' = "exit" /\ error' = "SystemExit"
                       /\ UNCHANGED <<remote, existing_challenges,
                                      processed_challenges, idx>>
                  ELSE /\ remote' = IF r.method = "POST"
                                    THEN remote \cup {[id |-> r.id, marker |-> r.marker]}
                                    ELSE { IF a.id = r.id
                                           THEN [id |-> a.id, marker |-> r.marker]
                                           ELSE a : a \in remote }
                       /\ existing_challenges' =
                              IF r.method = "PATCH"
                              THEN DictPop(existing_challenges, challenge.id)
                              ELSE existing_challenges
                       /\ processed_challenges' =
                              DictSet(processed_challenges, challenge.id, r.id)
                       /\ idx' = idx + 1
                       /\ UNCHANGED <<pc, error>>
    /\ UNCHANGED <<deployerVars, challenges, remote0, offers>>

\* main, line 250: the deployment loop is over
StartRequirements ==
    /\ pc = "ctfd_deploy" /\ idx > Len(challenges)
    /\ pc' = "ctfd_requires" /\ idx' = 1
    /\ UNCHANGED <<deployerVars, challenges, error, faults, ctfdVars>>

\* main, lines 250-256: one iteration of the requirements loop; requires is
\* a list, never None, so set_requirement is called for every challenge, and
\* a required challenge that was not processed raises KeyError.  The status
\* of the response is not looked at.
SetRequirement ==
    /\ pc = "ctfd_requires" /\ idx <= Len(challenges)
    /\ LET challenge == challenges[idx]
       IN  IF \E req \in challenge.requires : ~DictHas(processed_challenges, req)
           THEN /\ Raise("KeyError")
                /\ UNCHANGED <<requests, idx>>
           ELSE /\ requests' = Append(requests,
                        Request("PATCH requirements",
                                DictGet(processed_challenges, challenge.id),
                                challenge.id, TRUE))
                /\ idx' = idx + 1
                /\ UNCHANGED <<pc, error>>
    /\ UNCHANGED <<deployerVars, challenges, faults, remote, remote0,
                   existing_challenges, processed_challenges, offers>>

\* main, line 259: the requirements loop is over
StartOffers ==
    /\ pc = "ctfd_requires" /\ idx > Len(challenges)
    /\ pc' = "ctfd_delete" /\ idx' = 1
    /\ UNCHANGED <<deployerVars, challenges, error, faults, ctfdVars>>

Offer(challenge_id, answer) == [challenge_id |-> challenge_id, answer |-> answer]

\* input(...).lower() != "y" is false
Deletes(answer) == Lower(answer) = "y"

\* main, lines 259-270: one iteration of the deletion loop over
\* existing_challenges.values(); Ctrl-C at the prompt is not caught
OfferDeletion ==
    /\ pc = "ctfd_delete" /\ idx <= Len(existing_challenges)
    /\ LET challenge_id == DictValues(existing_challenges)[idx]
       IN  \E answer \in Answers \cup {Interrupt}, ok \in BOOLEAN :
            /\ offers' = Append(offers, Offer(challenge_id, answer))
            /\ IF answer = Interrupt
               THEN /\ ok /\ Raise("KeyboardInterrupt")
                    /\ UNCHANGED <<requests, remote, faults, idx>>
               ELSE IF ~Deletes(answer)
               THEN /\ ok /\ idx' = idx + 1
                    /\ UNCHANGED <<requests, remote, faults, pc, error>>
               ELSE /\ ~ok => faults < MaxFaults
                    /\ faults' = IF ok THEN faults ELSE faults + 1
                    /\ requests' = Append(requests,
                            Request("DELETE", challenge_id, "", ok))
                    /\ IF ok
                       THEN /\ remote' = { a \in remote : a.id # challenge_id }
                            /\ idx' = idx + 1
                            /\ UNCHANGED <<pc, error>>
                       ELSE /\ pc' = "exit" /\ error' = "SystemExit"
                            /\ UNCHANGED <<remote, idx>>
    /\ UNCHANGED <<deployerVars, challenges, remote0, existing_challenges,
                   processed_challenges>>

\* main returns
CtfdDone ==
    /\ pc = "ctfd_delete" /\ idx > Len(existing_challenges)
    /\ pc' = "ctfd_done"
    /\ UNCHANGED <<deployerVars, challenges, error, faults, idx, ctfdVars>>

\* ctfd_deploy.main started on a challenge list and a CTFd instance
InitCtfd ==
    /\ folders = <<>>
    /\ challenges \in CtfdChallengeLists(MaxChallenges)
    /\ build_images = FALSE /\ ignore_existing = FALSE
    /\ cluster = {} /\ pods = {} /\ inventory = <<>>
    /\ run = 1
    /\ cluster0 = cluster
    /\ pc = "ctfd_start" /\ FreshLocals
    /\ remote \in RemoteSets(MaxRemote)
    /\ remote0 = remote
    /\ existing_challenges = <<>> /\ processed_challenges = <<>>
    /\ requests = <<>> /\ offers = <<>>

NextCtfd ==
    \/ GetChallenges
    \/ DeployChallenge
    \/ StartRequirements
    \/ SetRequirement
    \/ StartOffers
    \/ OfferDeletion
    \/ CtfdDone

SpecCtfd == InitCtfd /\ [][NextCtfd]_vars


\* ------------------------------------------------------ derived quantities
\* the desired set: ids of the challenges that have a build context
DesiredIds ==
    { challenges[i].id : i \in { j \in 1..Len(challenges) : challenges[j].hasDockerfile } }

Desired ==
    { challenges[i] : i \in { j \in 1..Len(challenges) : challenges[j].hasDockerfile } }

CallsWhere(api, k, name) ==
    { i \in 1..Len(calls) :
        calls[i].api = api /\ calls[i].kind = k /\ calls[i].name = name }

IsMutation(call) == call.api \in {"create", "replace", "delete"}

ResourceDeletes ==
    { i \in 1..Len(calls) : calls[i].api = "delete" /\ calls[i].kind \in Kinds }

PodDeletes ==
    { i \in 1..Len(calls) : calls[i].api = "delete" /\ calls[i].kind = Pod }

\* the second inventory snapshot has been taken in this run
Diffed == pc \notin {"start", "aborted", "snapshot", "build", "push"} /\ build_images
            /\ ~(pc = "raised" /\ error = "NameError")

\* repository -> first listed digest of the inventory as it is now
DigestsNow == RepoDigests(Lines(inventory), EmptyMap)

\* ------------------------------------------------------------------ claims

\* C1 (as claimed): at every deletion prompt of main, no object of the
\* batch's kind that lacks the management label is among the listed names.
C1_UnmanagedNeverProposed ==
    pc = "prompt" =>
        \A o \in cluster :
            (o.kind = BatchKinds[batch] /\ ~o.managed) => o.name \notin to_delete

\* C2 (as claimed): at every deletion prompt of main, no listed name is the
\* id of a desired workload, whatever the create/update calls returned.
C2_DesiredNeverProposed ==
    pc = "prompt" => to_delete \cap DesiredIds = {}

\* C3 (as claimed): the second of two consecutive runs of main issues no
\* create, replace or delete call.
C3_SecondRunIssuesNoMutation ==
    run = 2 => \A i \in 1..Len(calls) : ~IsMutation(calls[i])

\* C4 (as claimed): every create call goes to an object that is absent from
\* the namespace and every replace call to one that is present.
C4_CreateUpdatePartition ==
    \A i \in 1..Len(calls) :
        /\ calls[i].api = "create" => ~calls[i].existed
        /\ calls[i].api = "replace" => calls[i].existed

\* C5: when a delete call for a Deployment, Service or Autoscaler is issued,
\* every desired workload has already been sent its create or replace call
\* for every kind main applies, and no read, create or replace call follows
\* a delete call.
C5_DeletesAfterApplies ==
    \A j \in ResourceDeletes :
        /\ \A id \in DesiredIds, k \in AppliedKinds :
              \E i \in 1..(j - 1) :
                  /\ calls[i].kind = k /\ calls[i].name = id
                  /\ calls[i].api \in {"create", "replace"}
        /\ \A i \in (j + 1)..Len(calls) :
              calls[i].api \notin {"read", "create", "replace"}

\* C5 witness: a resource delete call was issued in a run with two desired
\* workloads.
C5_Witness ==
    /\ ResourceDeletes # {}
    /\ Cardinality(DesiredIds) = 2

\* C6 (as claimed): when a pod is evicted, every desired workload has
\* already been sent its create or replace calls, no call for a Deployment,
\* Service or Autoscaler follows the eviction, and no deletion prompt of
\* main follows the restart prompt.
C6_EvictionsAfterDeletionPass ==
    /\ \A j \in PodDeletes :
          /\ \A id \in DesiredIds, k \in AppliedKinds :
                \E i \in 1..(j - 1) :
                    /\ calls[i].kind = k /\ calls[i].name = id
                    /\ calls[i].api \in {"create", "replace"}
          /\ \A i \in (j + 1)..Len(calls) : calls[i].kind = Pod
    /\ \A i, j \in 1..Len(prompts) :
          (i < j /\ prompts[i].kind = Pod) => prompts[j].kind = Pod

\* C7 (as claimed): a repository whose first listed digest is the same in
\* both snapshots is not in updated_images, and no pod running its image is
\* listed by update_pods.
C7_UnchangedNeverUpdated ==
    Diffed =>
        \A r \in DOMAIN images_repo_digests :
            DigestsNow[r] = images_repo_digests[r] =>
                /\ r \notin Range(updated_images)
                /\ pc = "pods_prompt" =>
                      \A p \in pods : p.image = r => p.name \notin pods_to_delete

\* a repository whose first listed digest is non-empty in both snapshots and
\* differs between them
DigestChanged(r) ==
    /\ r \in DOMAIN images_repo_digests
    /\ images_repo_digests[r] # ""
    /\ DigestsNow[r] # ""
    /\ DigestsNow[r] # images_repo_digests[r]

\* the restart prompt on screen or already answered lists the pod
ListedForRestart(name) ==
    \/ pc = "pods_prompt" /\ name \in pods_to_delete
    \/ \E i \in 1..Len(prompts) :
          prompts[i].kind = Pod /\ name \in prompts[i].names

PodDeleteFailed == \E i \in PodDeletes : ~calls[i].ok

FreshWorkloads == { c \in Desired : \A o \in cluster0 : o.name # c.id }

\* C9 (as claimed): a completed run has issued, for every such workload,
\* exactly one create call per kind, the Service one with the workload's
\* port, and no delete call.
C9_OneCreatePerKind ==
    pc = "done" =>
        \A c \in FreshWorkloads :
            /\ \A k \in Kinds : Cardinality(CallsWhere("create", k, c.id)) = 1
            /\ \A i \in CallsWhere("create", Service, c.id) : calls[i].port = c.port
            /\ \A k \in Kinds : CallsWhere("delete", k, c.id) = {}

\* C9 (amended): a completed run has issued, for every such workload,
\* exactly one create call for a Deployment and one for a Service, the
\* Service one with the workload's port, no create call for an Autoscaler
\* and no delete call for an object of that name.
C9_OneCreatePerAppliedKind ==
    pc = "done" =>
        \A c \in FreshWorkloads :
            /\ Cardinality(CallsWhere("create", Deployment, c.id)) = 1
            /\ Cardinality(CallsWhere("create", Service, c.id)) = 1
            /\ \A i \in CallsWhere("create", Service, c.id) : calls[i].port = c.port
            /\ CallsWhere("create", Autoscaler, c.id) = {}
            /\ \A k \in Kinds : CallsWhere("delete", k, c.id) = {}

\* C9 witness: a completed run that created the Deployment and the Service
\* of a workload that had no object before, on port 10101.
C9_Witness ==
    /\ pc = "done"
    /\ \E c \in FreshWorkloads :
          /\ c.port = 10101
          /\ \E i \in CallsWhere("create", Deployment, c.id) : calls[i].ok
          /\ \E i \in CallsWhere("create", Service, c.id) :
                calls[i].ok /\ calls[i].port = 10101

\* the run is no longer inside the deletion loop of the prompt's batch, and
\* no delete call of the batch failed
BatchOver(p) ==
    /\ ~(pc = "delete" /\ BatchKinds[batch] = p.kind)
    /\ \A i \in ResourceDeletes : calls[i].kind = p.kind => calls[i].ok

\* C10 (as claimed): after an approved deletion batch every listed name has
\* been sent exactly one delete call and is gone from the namespace; a
\* denied batch issues no delete call.
C10_ApprovedBatchDeleted ==
    \A i \in 1..Len(prompts) :
        LET p == prompts[i] IN
        p.kind \in Kinds =>
            /\ (p.reply = "approved" /\ BatchOver(p)) =>
                  \A n \in p.names :
                      /\ Cardinality(CallsWhere("delete", p.kind, n)) = 1
                      /\ \A o \in cluster : ~(o.kind = p.kind /\ o.name = n)
            /\ p.reply = "denied" =>
                  \A n \in p.names : CallsWhere("delete", p.kind, n) = {}

\* the prompts of the run that listed name n for kind k and were approved
ApprovedPrompts(k, n) ==
    { i \in 1..Len(prompts) :
        prompts[i].kind = k /\ n \in prompts[i].names /\ prompts[i].reply = "approved" }

\* C11: every delete call of the run, for a Deployment, Service, Autoscaler
\* or pod, was issued after a prompt of the run that listed its name and was
\* answered y or Y; a prompt that got any other answer is followed by no
\* delete call for a name of its batch; no prompt lists an empty batch.
C11_ConfirmationGate ==
    /\ \A j \in 1..Len(calls) :
          calls[j].api = "delete" => ApprovedPrompts(calls[j].kind, calls[j].name) # {}
    /\ \A i \in 1..Len(prompts) :
          /\ prompts[i].kind \in Kinds \cup {Pod} => prompts[i].names # {}
          /\ prompts[i].reply # "approved" =>
                \A n \in prompts[i].names : CallsWhere("delete", prompts[i].kind, n) = {}
    /\ pc = "prompt" => to_delete # {}
    /\ pc = "pods_prompt" => pods_to_delete # {}
    /\ pc \in {"delete", "pods_delete"} =>
          prompts # <<>> /\ prompts[Len(prompts)].reply = "approved"

\* C11 witness: in one run an approved batch was deleted and a later batch
\* that was answered otherwise was left alone.
C11_Witness ==
    /\ pc = "done"
    /\ \E i, j \in 1..Len(prompts) :
          /\ i < j
          /\ prompts[i].reply = "approved"
          /\ \E n \in prompts[i].names : CallsWhere("delete", prompts[i].kind, n) # {}
          /\ prompts[j].reply = "denied"
          /\ \E o \in cluster : o.kind = prompts[j].kind /\ o.name \in prompts[j].names

\* C12 (as claimed): with ignore_existing, build_and_push_images raises no
\* error, and the push list it hands to the pools holds the tag of every
\* desired workload that is absent from the first snapshot and no tag that
\* is in it.
C12_IgnoreExistingSkipsPush ==
    (build_images /\ ignore_existing) =>
        /\ ~(pc = "raised" /\ error = "NameError")
        /\ pc = "build" =>
              \A id \in DesiredIds :
                  Tag(id) \in push_commands <=> Tag(id) \notin DOMAIN images_repo_digests

\* C13: while a worker runs a push command no build command is waiting or
\* running, and once the second snapshot has been taken no build or push
\* command is waiting or running.
C13_TwoPhaseBarrier ==
    /\ pushing # {} => (build_commands = {} /\ building = {})
    /\ Diffed => /\ build_commands = {} /\ building = {}
                 /\ push_commands = {} /\ pushing = {}

\* C13 witness: two push commands are running at the same time after a build
\* of the batch produced a new image.
C13_Witness ==
    /\ Cardinality(pushing) = 2
    /\ \E i \in 1..Len(inventory) : inventory[i].digest = NoneDigest

\* C14 (as claimed): once the second snapshot has been taken every build and
\* push command of the batch has run to completion, whichever of them
\* failed, and no tag whose build or push failed is in updated_images or has
\* a pod listed for restart.
C14_FailedWorkloadNotUpdated ==
    Diffed =>
        /\ build_commands = {} /\ building = {}
        /\ push_commands = {} /\ pushing = {}
        /\ \A t \in failed :
              /\ t \notin Range(updated_images)
              /\ \A p \in pods : p.image = t => ~ListedForRestart(p.name)

\* C15 (as claimed): a create, replace or delete call for a Deployment,
\* Service or Autoscaler that fails does not end the run with an exception.
C15_ResourceFailureIsLocal ==
    (\E i \in 1..Len(calls) :
        calls[i].kind \in Kinds /\ IsMutation(calls[i]) /\ ~calls[i].ok)
      => ~(pc = "raised" /\ error = "ApiException")

\* C16: in a run whose first prompt was interrupted no docker command is
\* queued or run, no Kubernetes call is issued, no later prompt is shown and
\* the namespace is as it was when the run began.
C16_InterruptAbortsBeforeMutation ==
    (prompts # <<>> /\ prompts[1] = FirstPrompt("interrupted")) =>
        /\ pc = "aborted"
        /\ calls = <<>>
        /\ Len(prompts) = 1
        /\ cluster = cluster0
        /\ images_repo_digests = EmptyMap
        /\ build_commands = {} /\ building = {}
        /\ push_commands = {} /\ pushing = {} /\ failed = {}
        /\ updated_images = <<>> /\ pods_to_delete = {}

\* C16 witness: the first prompt was interrupted in a run with --build that
\* had a workload to build and apply and an object to delete.
C16_Witness ==
    /\ pc = "aborted"
    /\ prompts = <<FirstPrompt("interrupted")>>
    /\ build_images
    /\ DesiredIds # {}
    /\ cluster # {}

\* C17 (as claimed): a deletion or restart prompt that was interrupted leads
\* to no delete call for its batch and to no error: the run goes on as after
\* a denied prompt.
C17_InterruptIsNo ==
    \A i \in 1..Len(prompts) :
        (prompts[i].kind \in Kinds \cup {Pod} /\ prompts[i].reply = "interrupted") =>
            /\ \A n \in prompts[i].names : CallsWhere("delete", prompts[i].kind, n) = {}
            /\ ~(pc = "raised" /\ error = "KeyboardInterrupt")

\* the scan has returned a list and main was called with it
Scanned == pc \notin {"scan", "exit"}

\* C18 (as claimed): main is never called with two workloads that have the
\* same port, and no run applies two Services with the same port.
C18_PortsUnique ==
    Scanned =>
        /\ \A i, j \in 1..Len(challenges) :
              (i # j) => challenges[i].port # challenges[j].port
        /\ \A i, j \in 1..Len(calls) :
              (/\ i # j
               /\ calls[i].kind = Service /\ calls[j].kind = Service
               /\ calls[i].api \in {"create", "replace"}
               /\ calls[j].api \in {"create", "replace"}
               /\ calls[i].ok /\ calls[j].ok)
                  => calls[i].port # calls[j].port

\* C19 (as claimed): the id of every workload main is called with is a valid
\* DNS-1123 label.
C19_IdsAreDnsLabels ==
    Scanned => \A i \in 1..Len(folders) : IsDNS1123Label(ChallengeId(folders[i]))

\* ids of the workloads of the input that have no Dockerfile
SkippedIds ==
    { challenges[i].id : i \in { j \in 1..Len(challenges) : ~challenges[j].hasDockerfile } }

\* the challenge loop of main has gone through the whole list
LoopOver == pc \in {"list", "prompt", "delete", "done"}

\* C20: for a workload without a Dockerfile no build or push command is
\* queued or run and no read, create or replace call is issued, and it is in
\* no deployed list; every read, create and replace call of the run is for a
\* workload with a Dockerfile, and after the loop each of those has been sent
\* a create or replace call for every kind main applies.
C20_NoDockerfileSkipped ==
    LET desired == DesiredIds
        applied == { [kind |-> calls[i].kind, name |-> calls[i].name] :
                       i \in { j \in 1..Len(calls) :
                                 calls[j].api \in {"read", "create", "replace"} } }
        written == { [kind |-> calls[i].kind, name |-> calls[i].name] :
                       i \in { j \in 1..Len(calls) :
                                 calls[j].api \in {"create", "replace"} } }
    IN  /\ \A id \in SkippedIds \ desired :
              /\ Tag(id) \notin (build_commands \cup building \cup push_commands
                                   \cup pushing \cup failed)
              /\ \A i \in 1..Len(inventory) :
                    inventory[i].repository = Tag(id) => inventory[i].digest # NoneDigest
              /\ \A k \in Kinds :
                    /\ [kind |-> k, name |-> id] \notin applied
                    /\ id \notin Ids(deployed[k])
        /\ \A c \in applied : c.name \in desired
        /\ LoopOver =>
              \A id \in desired, k \in AppliedKinds : [kind |-> k, name |-> id] \in written

\* C20 witness: a completed run with --build whose input held a workload
\* without a Dockerfile and one with a Dockerfile that was built and applied.
C20_Witness ==
    /\ pc = "done" /\ build_images
    /\ SkippedIds # {}
    /\ \E id \in DesiredIds :
          /\ \E i \in 1..Len(inventory) :
                inventory[i].repository = Tag(id) /\ inventory[i].digest \in PushedDigests
          /\ \A k \in AppliedKinds : \E o \in cluster : o.kind = k /\ o.name = id

\* the objects main created in the namespace: those of its create calls
\* that succeeded
CreatedByMain ==
    { [kind |-> calls[i].kind, name |-> calls[i].name] :
        i \in { j \in 1..Len(calls) :
                  calls[j].api = "create" /\ calls[j].ok /\ calls[j].kind \in Kinds } }

\* C21 (as claimed): when clean_cluster has returned and no API call failed,
\* no Deployment, Service or Autoscaler that main created is in the
\* namespace, and every object that is gone since the clean run began
\* carried the management label.
C21_CleanRemovesCreated ==
    (pc = "cleaned" /\ faults = 0) =>
        /\ \A c \in CreatedByMain :
              \A o \in cluster : ~(o.kind = c.kind /\ o.name = c.name)
        /\ \A o \in cluster0 \ cluster : o.managed

SameTarget(i, j) == calls[i].kind = calls[j].kind /\ calls[i].name = calls[j].name

\* C22: a read call that fails, whether the object is absent or not, is
\* followed by exactly one create call for the same object and by no replace
\* call; a read call that succeeds is followed by exactly one replace call
\* for the same object; no replace call is issued without a successful read
\* right before it.
C22_CollapsedExistenceCheck ==
    \A i \in 1..Len(calls) :
        LET call == calls[i] IN
        /\ call.api = "read" =>
              /\ i < Len(calls)
              /\ IF i < Len(calls)
                 THEN /\ SameTarget(i, i + 1)
                      /\ calls[i + 1].api = (IF call.ok THEN "replace" ELSE "create")
                 ELSE FALSE
              /\ (i + 2 <= Len(calls) /\ ~call.ok) =>
                    calls[i + 2].api \notin {"create", "replace"}
              /\ (i + 2 <= Len(calls) /\ call.ok) => calls[i + 2].api # "replace"
        /\ call.api = "replace" =>
              /\ i > 1
              /\ IF i > 1 THEN calls[i - 1].api = "read" /\ calls[i - 1].ok ELSE FALSE

\* C22 witness: the read of an object that is in the namespace failed and a
\* create call for it followed; in the same run another read succeeded and
\* was followed by a replace call.
C22_Witness ==
    /\ \E i \in 1..(Len(calls) - 1) :
          /\ calls[i].api = "read" /\ calls[i].existed /\ ~calls[i].ok
          /\ calls[i + 1].api = "create"
    /\ \E i \in 1..(Len(calls) - 1) :
          /\ calls[i].api = "read" /\ calls[i].ok
          /\ calls[i + 1].api = "replace"

\* how often repository r is in updated_images
Occurrences(r) == Cardinality({ i \in 1..Len(updated_images) : updated_images[i] = r })

\* C23 (as claimed): after the second snapshot a repository of the first
\* snapshot is in updated_images exactly when its first listed digest now
\* differs from its first listed digest then (both non-empty), and it is in
\* the list at most once.
C23_FirstListedDigestWins ==
    Diffed =>
        \A r \in DOMAIN images_repo_digests :
            /\ r \in Range(updated_images) <=> DigestChanged(r)
            /\ Occurrences(r) <= 1

\* the image of the first container of the pod called name
PodImage(name) == (CHOOSE p \in PodUniverse : p.name = name).image

\* the image tag was built and pushed in this run, the push succeeded and
\* left a new pushed digest first in the inventory
PushedAnew(t) ==
    /\ t \in CommandTags(challenges)
    /\ t \notin failed
    /\ t \in DOMAIN DigestsNow
    /\ DigestsNow[t] \in PushedDigests
    /\ (t \in DOMAIN images_repo_digests => DigestsNow[t] # images_repo_digests[t])

\* C24 (as claimed): every pod delete call of the run is for a pod whose
\* image was pushed anew in this run; no pod of a workload whose build or
\* push failed is sent a delete call.
C24_EvictionOnlyAfterPush ==
    \A j \in PodDeletes : PushedAnew(PodImage(calls[j].name))

\* the images of the containers of pod p
ContainerImages(p) == {p.image} \cup p.others

\* the pods the claim expects in the restart prompt: managed pods that run a
\* container with an image of updated_images
ExpectedRestarts(ps) ==
    { p.name : p \in { q \in ps : q.managed
                                   /\ ContainerImages(q) \cap Range(updated_images) # {} } }

\* C25 (as claimed): the restart prompt lists exactly the managed pods that
\* run a container with a changed image; once update_pods has listed the
\* pods every such pod was listed; every pod delete call is for such a pod;
\* without --build no pod delete call is issued.
C25_RestartSetExact ==
    /\ pc = "pods_prompt" => pods_to_delete = ExpectedRestarts(pods)
    /\ (Diffed /\ pc # "update_pods") =>
          \A n \in ExpectedRestarts(pods) : ListedForRestart(n)
    /\ \A j \in PodDeletes :
          LET p == CHOOSE q \in PodUniverse : q.name = calls[j].name
          IN  p.managed /\ ContainerImages(p) \cap Range(updated_images) # {}
    /\ ~build_images => PodDeletes = {}

\* managed pods whose first container runs an image of updated_images
FirstContainerRestarts(ps) ==
    { p.name : p \in { q \in ps : q.managed /\ q.image \in Range(updated_images) } }

\* C25 (amended): the restart prompt lists exactly the managed pods whose
\* first container runs a changed image; once update_pods has listed the
\* pods every such pod was listed; every restart prompt and every pod delete
\* call names only such pods; a pod delete call is issued only in a run with
\* --build, after the second snapshot.
C25_RestartSetFirstContainer ==
    /\ pc = "pods_prompt" => pods_to_delete = FirstContainerRestarts(pods)
    /\ (Diffed /\ pc # "update_pods") =>
          \A n \in FirstContainerRestarts(pods) : ListedForRestart(n)
    /\ \A i \in 1..Len(prompts) :
          prompts[i].kind = Pod => prompts[i].names \subseteq FirstContainerRestarts(PodUniverse)
    /\ \A j \in PodDeletes : calls[j].name \in FirstContainerRestarts(PodUniverse)
    /\ PodDeletes # {} => (build_images /\ Diffed)

\* C25 witness: the restart prompt is on screen and lists the one managed
\* pod whose first container runs the changed image.
C25_Witness ==
    /\ pc = "pods_prompt"
    /\ pods_to_delete = {"web-01-ctf-5d9f"}
    /\ \E p \in pods : p.name = "web-01-ctf-5d9f"

\* C26: for every workload the Service main builds has port and nodePort
\* equal to the workload port, targetPort equal to the internal port 5000,
\* which is the Deployment's containerPort, and a selector challenge=id equal
\* to the Deployment's selector and to its pod-template label; every Service
\* create or replace call of the run carries the port of a workload of that
\* name.
C26_ServiceMatchesDeployment ==
    LET desired == Desired
        ports == { [name |-> c.id, port |-> ServiceManifest(c).nodePort] : c \in desired }
    IN  /\ \A c \in desired :
              LET d == DeploymentManifest(c)
                  s == ServiceManifest(c)
              IN  /\ s.name = c.id /\ d.name = s.name
                  /\ s.port = c.port /\ s.nodePort = c.port
                  /\ s.targetPort = 5000
                  /\ s.targetPort = DEFAULT_INTERNAL_PORT
                  /\ d.containerPort = s.targetPort
                  /\ s.selector = c.id
                  /\ d.selector = s.selector
                  /\ d.podLabel = s.selector
        /\ \A i \in 1..Len(calls) :
              (calls[i].kind = Service /\ calls[i].api \in {"create", "replace"}) =>
                  [name |-> calls[i].name, port |-> calls[i].port] \in ports

\* C26 witness: a run has replaced the Deployment and the Service of a
\* workload that was already in the namespace, the Service on port 10101.
C26_Witness ==
    /\ pc = "done"
    /\ \E c \in Desired :
          /\ c.port = 10101
          /\ \E i \in CallsWhere("replace", Deployment, c.id) : calls[i].ok
          /\ \E i \in CallsWhere("replace", Service, c.id) :
                calls[i].ok /\ calls[i].port = 10101

\* the POST and PATCH requests of the deployment loop, in order
DeployRequests == SelectSeq(requests, LAMBDA r : r.method \in {"POST", "PATCH"})

\* the challenge ids found in the descriptions stored on CTFd at the start
ExistingIds == { a.marker : a \in remote0 } \ {NoMarker}

CatalogIds == { challenges[i].id : i \in 1..Len(challenges) }

\* the stored challenges whose id matches no challenge of the catalog
Orphans == { a.id : a \in { b \in remote0 : b.marker \notin CatalogIds } }

Offered == { offers[i].challenge_id : i \in 1..Len(offers) }

\* the deployment loop of ctfd_deploy.main has ended normally
DeployLoopOver == pc \in {"ctfd_requires", "ctfd_delete", "ctfd_done"}

\* C27 (as claimed): every challenge of the catalog is sent exactly one
\* request of the deployment loop, a POST when its id is not among the
\* challenges stored on CTFd at the start and a PATCH when it is; the stored
\* challenges offered for deletion are exactly those whose id matches no
\* catalog challenge; a DELETE is sent only for a challenge whose own prompt
\* was answered y; no challenge created or patched in the run is offered.
C27_RoutingAndDeletion ==
    /\ Len(DeployRequests) <= Len(challenges)
    /\ DeployLoopOver => Len(DeployRequests) = Len(challenges)
    /\ \A k \in 1..Len(DeployRequests) :
          /\ DeployRequests[k].marker = challenges[k].id
          /\ DeployRequests[k].method = "POST" <=> challenges[k].id \notin ExistingIds
          /\ DeployRequests[k].method = "PATCH" <=> challenges[k].id \in ExistingIds
    /\ Offered \subseteq Orphans
    /\ pc = "ctfd_done" => Offered = Orphans
    /\ \A i \in 1..Len(requests) :
          requests[i].method = "DELETE" =>
              \E j \in 1..Len(offers) :
                  /\ offers[j].challenge_id = requests[i].id
                  /\ Lower(offers[j].answer) = "y"
    /\ \A i \in 1..Len(offers) :
          ~\E k \in 1..Len(DeployRequests) :
              DeployRequests[k].ok /\ DeployRequests[k].id = offers[i].challenge_id

\* The clauses of C27 on the deletion loop alone: they hold in every run.
C27_DeletionPart ==
    /\ Offered \subseteq Orphans
    /\ pc = "ctfd_done" => Offered = Orphans
    /\ \A i \in 1..Len(requests) :
          requests[i].method = "DELETE" =>
              \E j \in 1..Len(offers) :
                  /\ offers[j].challenge_id = requests[i].id
                  /\ Lower(offers[j].answer) = "y"
    /\ \A i \in 1..Len(offers) :
          ~\E k \in 1..Len(DeployRequests) :
              DeployRequests[k].ok /\ DeployRequests[k].id = offers[i].challenge_id

\* the catalog gives every id to one challenge
UniqueIds == \A i, j \in 1..Len(challenges) : challenges[i].id = challenges[j].id => i = j

\* With one challenge per id the routing clauses hold as well.
C27_UniqueIdsRouting == UniqueIds => C27_RoutingAndDeletion

====
